---- MODULE Spec2Model ----
(***************************************************************************)
(* Model of scripts/transcribe.py: a command-line entry point that         *)
(* validates one audio path (validate_audio_path), hands it to the         *)
(* faster-whisper recogniser (transcribe_audio) and prints the transcript. *)
(*                                                                         *)
(* Strings are sequences of one-character strings, so that str.startswith, *)
(* str.lower, Path.suffix, ' '.join and str.strip are computed character   *)
(* by character.  A path is the sequence of its component names.           *)
(***************************************************************************)
EXTENDS Integers, Sequences, FiniteSets, TLC

VARIABLES
    argv,        \* sys.argv[1:], a sequence of paths
    exists,      \* regular files present on disk
    link,        \* target of the symbolic link LinkPath
    envSteps,    \* filesystem changes made by other processes so far
    pc,          \* position of main: "start","validate","transcribe","emit","done"
    checked,     \* history: what validate_audio_path inspected: the resolved
                 \* path, whether it was on disk, whether inspecting it failed
    validated,   \* "none" before validate_audio_path returned, then "pass"/"fail"
    calls,       \* the calls of transcribe_audio, in order: the path handed
                 \* over, the file it denoted at that moment, whether that file
                 \* was on disk, whether model.transcribe was reached
    segments,    \* segment texts the recogniser returned
    transcript,  \* value returned by transcribe_audio
    stdout,      \* writes to sys.stdout, in order
    stderr,      \* diagnostics written to sys.stderr, in order
    exitCode,    \* -1 while running, then the exit status of the process
    uncaught,    \* TRUE when the process ended by an uncaught exception
    steps,       \* history: the stages main entered, in order
    fsTouched    \* history: TRUE once the program made a filesystem call

vars == <<argv, exists, link, envSteps, pc, checked, validated, calls, segments,
          transcript, stdout, stderr, exitCode, uncaught, steps, fsTouched>>

-----------------------------------------------------------------------------
(* Bounds *)

MaxArgs == 2        \* longest argument list tried
MaxEnvSteps == 1    \* filesystem changes by other processes per run
MaxSegs == 2        \* most segments the recogniser returns
MaxSegLen == 2      \* longest segment text

-----------------------------------------------------------------------------
(* Characters and strings *)

UpperChars == <<"A","B","C","D","E","F","G","H","I","J","K","L","M",
                "N","O","P","Q","R","S","T","U","V","W","X","Y","Z">>
LowerChars == <<"a","b","c","d","e","f","g","h","i","j","k","l","m",
                "n","o","p","q","r","s","t","u","v","w","x","y","z">>

\* str.lower, one character
LowerChar(c) ==
    IF \E i \in 1..Len(UpperChars) : UpperChars[i] = c
    THEN LowerChars[CHOOSE i \in 1..Len(UpperChars) : UpperChars[i] = c]
    ELSE c

\* str.lower
Lower(s) == [i \in 1..Len(s) |-> LowerChar(s[i])]

\* str.startswith
StartsWith(s, prefix) ==
    /\ Len(prefix) <= Len(s)
    /\ SubSeq(s, 1, Len(prefix)) = prefix

\* str.rfind('.'), 1-based; 0 when there is no dot
RFindDot(name) ==
    IF \E i \in 1..Len(name) : name[i] = "."
    THEN CHOOSE i \in 1..Len(name) :
            /\ name[i] = "."
            /\ \A j \in (i+1)..Len(name) : name[j] # "."
    ELSE 0

\* PurePath.suffix: the last dot and what follows it, unless the dot is the
\* first or the last character of the name
Suffix(path) ==
    IF path = <<>> THEN <<>>
    ELSE LET name == path[Len(path)]
             i == RFindDot(name)
         IN IF 1 < i /\ i < Len(name) THEN SubSeq(name, i, Len(name)) ELSE <<>>

RECURSIVE Str(_)
\* str(path) of an absolute path
Str(path) ==
    IF path = <<>> THEN <<"/">>
    ELSE IF Len(path) = 1 THEN <<"/">> \o path[1]
    ELSE Str(SubSeq(path, 1, Len(path) - 1)) \o <<"/">> \o path[Len(path)]

-----------------------------------------------------------------------------
(* The filesystem the runs are tried on *)

tmp == <<"t","m","p">>
tmpfoo == <<"t","m","p","f","o","o">>
etc == <<"e","t","c">>
root == <<"r","o","o","t">>
DotDot == <<".",".">>

a_wav == <<"a",".","w","a","v">>
b_MP3 == <<"b",".","M","P","3">>
c_m4a == <<"c",".","m","4","a">>
d_flac == <<"d",".","f","l","a","c">>
e_Ogg == <<"e",".","O","g","g">>
f_txt == <<"f",".","t","x","t">>
noext == <<"g">>
hidden == <<".","w","a","v">>
l_wav == <<"l",".","w","a","v">>
passwd == <<"p","a","s","s","w","d">>
gone_wav == <<"n",".","w","a","v">>

TmpDir == <<tmp>>
Dirs == {<<>>, <<tmp>>, <<tmpfoo>>, <<etc>>, <<root>>}

\* regular files that may be on disk
Files == { <<tmp, a_wav>>, <<tmp, b_MP3>>, <<tmp, c_m4a>>, <<tmp, d_flac>>,
           <<tmp, e_Ogg>>, <<tmp, f_txt>>, <<tmp, noext>>, <<tmp, hidden>>,
           <<tmpfoo, a_wav>>, <<tmpfoo, f_txt>>, <<etc, passwd>>, <<etc, a_wav>> }

\* files another user of the machine can remove
Removable == { <<tmp, a_wav>>, <<tmp, f_txt>>, <<tmpfoo, a_wav>> }

\* a symbolic link in /tmp, and where it may point
LinkPath == <<tmp, l_wav>>
LinkTargets == { <<tmp, a_wav>>, <<etc, a_wav>>, <<tmp, f_txt>> }

\* paths whose stat() fails with EACCES
Denied == { <<root, a_wav>> }

\* paths given on the command line
ArgPaths == Files \cup {LinkPath, TmpDir, <<tmp, gone_wav>>, <<etc, gone_wav>>,
                        <<tmp, DotDot, etc, a_wav>>, <<etc, DotDot, tmp, a_wav>>,
                        <<root, a_wav>>}
OtherArgs == { <<tmp, a_wav>>, <<etc, passwd>> }

ArgLists ==
    {<<>>} \cup
    UNION { { <<p>> \o rest : p \in ArgPaths, rest \in [1..n -> OtherArgs] }
            : n \in 0..(MaxArgs - 1) }

-----------------------------------------------------------------------------
(* Path resolution and inspection *)

RECURSIVE ResolveFrom(_, _)
\* os.path.realpath: walk the components, ".." drops the last one, a
\* symbolic link is replaced by its target
ResolveFrom(cur, rest) ==
    IF rest = <<>> THEN cur
    ELSE LET c == Head(rest)
             nxt == Append(cur, c)
         IN IF c = DotDot
            THEN ResolveFrom(IF cur = <<>> THEN <<>> ELSE SubSeq(cur, 1, Len(cur) - 1),
                             Tail(rest))
            ELSE IF nxt = LinkPath THEN ResolveFrom(link, Tail(rest))
            ELSE ResolveFrom(nxt, Tail(rest))

\* Path(p).resolve()
Resolve(p) == ResolveFrom(<<>>, p)

\* Path.exists() of a resolved path
Exists(path) == path \in exists \cup Dirs

\* the allow-list of validate_audio_path
AllowedExtensions ==
    { <<".","w","a","v">>, <<".","m","p","3">>, <<".","m","4","a">>,
      <<".","f","l","a","c">>, <<".","o","g","g">> }

Diag(kind, detail) == [kind |-> kind, detail |-> detail]

\* ValidateBody with the suffix compared as written, without .lower()
ValidateBodyCaseSensitive(audio_path) ==
    LET path == Resolve(audio_path)
        tmp_dir == Resolve(TmpDir)
    IN IF path \in Denied
       THEN [ok |-> FALSE, err |-> <<>>, raised |-> TRUE]
       ELSE IF ~Exists(path)
       THEN [ok |-> FALSE, err |-> <<Diag("not_exist", audio_path)>>, raised |-> FALSE]
       ELSE IF ~StartsWith(Str(path), Str(tmp_dir))
       THEN [ok |-> FALSE, err |-> <<Diag("not_in_tmp", <<>>)>>, raised |-> FALSE]
       ELSE IF Suffix(path) \notin AllowedExtensions
       THEN [ok |-> FALSE, err |-> <<Diag("bad_ext", <<Suffix(path)>>)>>, raised |-> FALSE]
       ELSE [ok |-> TRUE, err |-> <<>>, raised |-> FALSE]

\* the body of the try block of validate_audio_path; raised is TRUE when
\* an exception leaves the block (stat() failing with EACCES)
ValidateBody(audio_path) ==
    LET path == Resolve(audio_path)
        tmp_dir == Resolve(TmpDir)
    IN IF path \in Denied
       THEN [ok |-> FALSE, err |-> <<>>, raised |-> TRUE]
       ELSE IF ~Exists(path)
       THEN [ok |-> FALSE, err |-> <<Diag("not_exist", audio_path)>>, raised |-> FALSE]
       ELSE IF ~StartsWith(Str(path), Str(tmp_dir))
       THEN [ok |-> FALSE, err |-> <<Diag("not_in_tmp", <<>>)>>, raised |-> FALSE]
       ELSE IF Lower(Suffix(path)) \notin AllowedExtensions
       THEN [ok |-> FALSE, err |-> <<Diag("bad_ext", <<Suffix(path)>>)>>, raised |-> FALSE]
       ELSE [ok |-> TRUE, err |-> <<>>, raised |-> FALSE]

\* validate_audio_path without its except Exception handler
ValidateAudioPathNoHandler(audio_path) ==
    LET r == ValidateBody(audio_path)
    IN IF r.raised
       THEN [ok |-> FALSE, err |-> <<Diag("traceback", <<>>)>>, raised |-> TRUE]
       ELSE r

\* validate_audio_path: the try block and its except Exception handler
ValidateAudioPath(audio_path) ==
    LET r == ValidateBody(audio_path)
    IN IF r.raised
       THEN [ok |-> FALSE, err |-> <<Diag("validate_exc", audio_path)>>, raised |-> FALSE]
       ELSE r

-----------------------------------------------------------------------------
(* Transcription *)

\* characters of the segment texts tried
Chars == {" ", "a", "b"}
\* what str.strip() removes
Whitespace == {" ", "\t", "\n", "\r"}

Texts == UNION { [1..n -> Chars] : n \in 0..MaxSegLen }
SegmentLists == UNION { [1..n -> Texts] : n \in 0..MaxSegs }
\* segment lists tried in whole runs of the program
RunSegments == { <<>>, << <<" ","a">>, <<"b"," ">> >> }

RECURSIVE Join(_, _)
\* sep.join(texts)
Join(sep, texts) ==
    IF texts = <<>> THEN <<>>
    ELSE IF Len(texts) = 1 THEN texts[1]
    ELSE texts[1] \o sep \o Join(sep, Tail(texts))

RECURSIVE LStrip(_)
LStrip(s) == IF s # <<>> /\ Head(s) \in Whitespace THEN LStrip(Tail(s)) ELSE s

RECURSIVE RStrip(_)
RStrip(s) ==
    IF s # <<>> /\ s[Len(s)] \in Whitespace
    THEN RStrip(SubSeq(s, 1, Len(s) - 1))
    ELSE s

\* str.strip()
Strip(s) == RStrip(LStrip(s))

\* Combine with the segments joined by the empty string
CombineNoSeparator(segs) == Strip(Join(<<>>, segs))

\* lines 53-55 of transcribe_audio
Combine(segs) == Strip(Join(<<" ">>, segs))

\* what the recogniser may do
Outcomes == {"import_error", "load_error", "transcribe_error", "ok"}

\* the try block of transcribe_audio
TranscribeBody(outcome, segs) ==
    CASE outcome = "import_error" ->
           [raise |-> "ImportError", invoked |-> FALSE, value |-> <<>>]
      [] outcome = "load_error" ->
           [raise |-> "Exception", invoked |-> FALSE, value |-> <<>>]
      [] outcome = "transcribe_error" ->
           [raise |-> "Exception", invoked |-> TRUE, value |-> <<>>]
      [] OTHER ->
           [raise |-> "none", invoked |-> TRUE, value |-> Combine(segs)]

\* transcribe_audio with the ImportError handler only
TranscribeAudioNoHandler(outcome, segs) ==
    LET r == TranscribeBody(outcome, segs)
    IN CASE r.raise = "ImportError" ->
              [exit |-> 1, err |-> <<Diag("import_error", <<>>)>>, uncaught |-> FALSE,
               invoked |-> r.invoked, value |-> r.value]
         [] r.raise = "Exception" ->
              [exit |-> 1, err |-> <<Diag("traceback", <<>>)>>, uncaught |-> TRUE,
               invoked |-> r.invoked, value |-> r.value]
         [] OTHER ->
              [exit |-> -1, err |-> <<>>, uncaught |-> FALSE,
               invoked |-> r.invoked, value |-> r.value]

\* transcribe_audio: the try block and its two handlers, each of which
\* prints to stderr and calls sys.exit(1)
TranscribeAudio(outcome, segs) ==
    LET r == TranscribeBody(outcome, segs)
    IN CASE r.raise = "ImportError" ->
              [exit |-> 1, err |-> <<Diag("import_error", <<>>)>>, uncaught |-> FALSE,
               invoked |-> r.invoked, value |-> r.value]
         [] r.raise = "Exception" ->
              [exit |-> 1, err |-> <<Diag("transcribe_exc", <<>>)>>, uncaught |-> FALSE,
               invoked |-> r.invoked, value |-> r.value]
         [] OTHER ->
              [exit |-> -1, err |-> <<>>, uncaught |-> FALSE,
               invoked |-> r.invoked, value |-> r.value]

-----------------------------------------------------------------------------
(* main *)

Init ==
    /\ argv \in ArgLists
    /\ exists = Files
    /\ link \in LinkTargets
    /\ envSteps = 0
    /\ pc = "start"
    /\ checked = <<>>
    /\ validated = "none"
    /\ calls = <<>>
    /\ segments = <<>>
    /\ transcript = <<>>
    /\ stdout = <<>>
    /\ stderr = <<>>
    /\ exitCode = -1
    /\ uncaught = FALSE
    /\ steps = <<>>
    /\ fsTouched = FALSE

\* ArgumentCheck testing len(sys.argv) < 2 instead of != 2
ArgumentCheckAtLeastOne ==
    /\ pc = "start"
    /\ steps' = Append(steps, "ARGUMENT_CHECK")
    /\ IF Len(argv) + 1 < 2
       THEN /\ stderr' = Append(stderr, Diag("usage", <<>>))
            /\ exitCode' = 1
            /\ pc' = "done"
       ELSE /\ pc' = "validate"
            /\ UNCHANGED <<stderr, exitCode>>
    /\ UNCHANGED <<argv, exists, link, envSteps, checked, validated, calls, segments,
                   transcript, stdout, uncaught, fsTouched>>

\* main, lines 65-69: the argument-count check
ArgumentCheck ==
    /\ pc = "start"
    /\ steps' = Append(steps, "ARGUMENT_CHECK")
    /\ IF Len(argv) + 1 # 2
       THEN /\ stderr' = Append(stderr, Diag("usage", <<>>))
            /\ exitCode' = 1
            /\ pc' = "done"
       ELSE /\ pc' = "validate"
            /\ UNCHANGED <<stderr, exitCode>>
    /\ UNCHANGED <<argv, exists, link, envSteps, checked, validated, calls, segments,
                   transcript, stdout, uncaught, fsTouched>>

\* PathValidation without the sys.exit(1) on a failed validation
PathValidationUnchecked ==
    /\ pc = "validate"
    /\ steps' = Append(steps, "PATH_VALIDATION")
    /\ fsTouched' = TRUE
    /\ checked' = Append(checked, [path |-> Resolve(argv[1]),
                                   present |-> Exists(Resolve(argv[1])),
                                   failed |-> Resolve(argv[1]) \in Denied])
    /\ LET r == ValidateAudioPath(argv[1])
       IN /\ stderr' = stderr \o r.err
          /\ validated' = IF r.ok THEN "pass" ELSE "fail"
          /\ pc' = "transcribe"
    /\ UNCHANGED <<argv, exists, link, envSteps, calls, segments, transcript, stdout,
                   exitCode, uncaught>>

\* main, lines 72-73: the call of validate_audio_path and the exit on failure
PathValidation ==
    /\ pc = "validate"
    /\ steps' = Append(steps, "PATH_VALIDATION")
    /\ fsTouched' = TRUE
    /\ checked' = Append(checked, [path |-> Resolve(argv[1]),
                                   present |-> Exists(Resolve(argv[1])),
                                   failed |-> Resolve(argv[1]) \in Denied])
    /\ LET r == ValidateAudioPath(argv[1])
       IN /\ stderr' = stderr \o r.err
          /\ IF r.raised  \* the exception leaves main: traceback, status 1
             THEN /\ uncaught' = TRUE
                  /\ exitCode' = 1
                  /\ pc' = "done"
                  /\ UNCHANGED validated
             ELSE /\ validated' = IF r.ok THEN "pass" ELSE "fail"
                  /\ exitCode' = IF r.ok THEN exitCode ELSE 1
                  /\ pc' = IF r.ok THEN "transcribe" ELSE "done"
                  /\ UNCHANGED uncaught
    /\ UNCHANGED <<argv, exists, link, envSteps, calls, segments, transcript, stdout>>

\* main, line 76, with the segment lists drawn from S
TranscribeFrom(S) ==
    /\ pc = "transcribe"
    /\ steps' = Append(steps, "TRANSCRIBE")
    /\ \E outcome \in Outcomes, segs \in S :
          LET r == TranscribeAudio(outcome, segs)
              target == Resolve(argv[1])
          IN /\ outcome = "ok" => Exists(target)
             /\ outcome # "ok" => segs = <<>>
             /\ calls' = Append(calls, [path |-> argv[1], target |-> target,
                                        present |-> target \in exists,
                                        reached |-> r.invoked])
             /\ fsTouched' = (fsTouched \/ r.invoked)
             /\ segments' = segs
             /\ transcript' = r.value
             /\ stderr' = stderr \o r.err
             /\ uncaught' = r.uncaught
             /\ exitCode' = r.exit
             /\ pc' = IF r.exit = -1 /\ ~r.uncaught THEN "emit" ELSE "done"
    /\ UNCHANGED <<argv, exists, link, envSteps, checked, validated, stdout>>

Transcribe == TranscribeFrom(RunSegments)

\* EmitOutput printing a header line before the transcript
EmitOutputWithHeader ==
    /\ pc = "emit"
    /\ steps' = Append(steps, "EMIT_OUTPUT")
    /\ stdout' = stdout \o << <<"T",":">>, transcript >>
    /\ exitCode' = 0
    /\ pc' = "done"
    /\ UNCHANGED <<argv, exists, link, envSteps, checked, validated, calls, segments,
                   transcript, stderr, uncaught, fsTouched>>

\* main, line 79, and the normal end of the process
EmitOutput ==
    /\ pc = "emit"
    /\ steps' = Append(steps, "EMIT_OUTPUT")
    /\ stdout' = Append(stdout, transcript)
    /\ exitCode' = 0
    /\ pc' = "done"
    /\ UNCHANGED <<argv, exists, link, envSteps, checked, validated, calls, segments,
                   transcript, stderr, uncaught, fsTouched>>

\* another process removes a file
RemoveFile ==
    /\ pc # "done"
    /\ envSteps < MaxEnvSteps
    /\ \E f \in Removable \cap exists : exists' = exists \ {f}
    /\ envSteps' = envSteps + 1
    /\ UNCHANGED <<argv, link, pc, checked, validated, calls, segments, transcript,
                   stdout, stderr, exitCode, uncaught, steps, fsTouched>>

\* another process points the symbolic link elsewhere
Relink ==
    /\ pc # "done"
    /\ envSteps < MaxEnvSteps
    /\ \E t \in LinkTargets \ {link} : link' = t
    /\ envSteps' = envSteps + 1
    /\ UNCHANGED <<argv, exists, pc, checked, validated, calls, segments, transcript,
                   stdout, stderr, exitCode, uncaught, steps, fsTouched>>

Next ==
    \/ ArgumentCheck
    \/ PathValidation
    \/ Transcribe
    \/ EmitOutput
    \/ RemoveFile
    \/ Relink

Spec == Init /\ [][Next]_vars

\* the steps of the program itself
Program == ArgumentCheck \/ PathValidation \/ Transcribe \/ EmitOutput

\* runs on /tmp/a.wav with every segment list within the bounds
TranscribeAll == TranscribeFrom(SegmentLists)

InitT == Init /\ argv = << <<tmp, a_wav>> >>

NextT ==
    \/ ArgumentCheck
    \/ PathValidation
    \/ TranscribeAll
    \/ EmitOutput

SpecT == InitT /\ [][NextT]_vars

TypeOK ==
    /\ pc \in {"start", "validate", "transcribe", "emit", "done"}
    /\ exitCode \in {-1, 0, 1}
    /\ validated \in {"none", "pass", "fail"}

-----------------------------------------------------------------------------
(* Notions the properties are stated with *)

\* path p lies in directory d: d is a prefix of p, component by component
InsideDir(p, d) ==
    /\ Len(d) <= Len(p)
    /\ SubSeq(p, 1, Len(d)) = d

\* name ends with extension e, letter case ignored, after a non-empty stem
EndsWithIgnoringCase(name, e) ==
    /\ Len(name) > Len(e)
    /\ \A i \in 1..Len(e) : LowerChar(name[Len(name) - Len(e) + i]) = e[i]

\* the last component of p carries one of the five audio extensions
HasAudioExtension(p) ==
    /\ p # <<>>
    /\ \E e \in AllowedExtensions : EndsWithIgnoringCase(p[Len(p)], e)

StageOrder == <<"ARGUMENT_CHECK", "PATH_VALIDATION", "TRANSCRIBE", "EMIT_OUTPUT">>

Kinds(log) == [i \in 1..Len(log) |-> log[i].kind]

\* the diagnostic of the first of the three predicates that fails for c
FirstFailing(c) ==
    IF ~c.present THEN "not_exist"
    ELSE IF ~InsideDir(c.path, TmpDir) THEN "not_in_tmp"
    ELSE IF ~HasAudioExtension(c.path) THEN "bad_ext"
    ELSE "none"

\* number of characters of the segments before segment i and their separators
RECURSIVE Offset(_, _)
Offset(segs, i) == IF i <= 1 THEN 0 ELSE Offset(segs, i - 1) + Len(segs[i - 1]) + 1

\* the segment texts in order with one space between consecutive ones,
\* given position by position
Spaced(segs) ==
    LET n == Len(segs)
        total == IF n = 0 THEN 0 ELSE Offset(segs, n) + Len(segs[n])
    IN [k \in 1..total |->
          IF \E i \in 1..n : Offset(segs, i) < k /\ k <= Offset(segs, i) + Len(segs[i])
          THEN LET i == CHOOSE j \in 1..n :
                           Offset(segs, j) < k /\ k <= Offset(segs, j) + Len(segs[j])
               IN segs[i][k - Offset(segs, i)]
          ELSE " "]

\* t is s without its leading and trailing whitespace
IsTrimOf(t, s) ==
    \E a, b \in 0..Len(s) :
        /\ a + b <= Len(s)
        /\ t = SubSeq(s, a + 1, Len(s) - b)
        /\ \A i \in 1..a : s[i] \in Whitespace
        /\ \A i \in (Len(s) - b + 1)..Len(s) : s[i] \in Whitespace
        /\ t # <<>> => t[1] \notin Whitespace /\ t[Len(t)] \notin Whitespace

-----------------------------------------------------------------------------
(* Properties *)

\* C1: an existing path whose resolved form is not inside /tmp is rejected by
\* validate_audio_path whatever its extension, and transcribe_audio is never
\* called for it.
C1_OutsideRejected ==
    \A i \in 1..Len(checked) :
        (~checked[i].failed /\ checked[i].present /\ ~InsideDir(checked[i].path, TmpDir))
            => validated = "fail" /\ calls = <<>>

\* C2: the stages occur in the order ARGUMENT_CHECK, PATH_VALIDATION,
\* TRANSCRIBE, EMIT_OUTPUT; transcribe_audio is called only after the argument
\* check and the validation both succeeded, exactly once in that case and with
\* the path of the command line, and never otherwise.
C2_StagesInOrder ==
    /\ Len(steps) <= Len(StageOrder)
    /\ steps = SubSeq(StageOrder, 1, Len(steps))
    /\ Len(calls) <= 1
    /\ calls # <<>> =>
          /\ Len(argv) = 1
          /\ validated = "pass"
          /\ calls[1].path = argv[1]
          /\ Len(steps) >= 3
    /\ (pc \in {"emit", "done"} /\ Len(argv) = 1 /\ validated = "pass") => Len(calls) = 1
    /\ (Len(argv) # 1 \/ validated # "pass") => calls = <<>>

C2_Witness ==
    /\ pc = "done"
    /\ Len(calls) = 1
    /\ calls[1].path = <<tmp, a_wav>>
    /\ steps = StageOrder

\* C3: a run that ends in failure writes nothing to stdout, a successful run
\* writes stdout exactly once, the transcript, after transcription returned,
\* and the diagnostics are on stderr only.
C3_StdoutOnlyTranscript ==
    /\ exitCode # 0 => stdout = <<>>
    /\ exitCode = 0 =>
          /\ stdout = <<transcript>>
          /\ stderr = <<>>
          /\ steps = StageOrder
          /\ transcript = Combine(segments)
    /\ (pc = "done" /\ exitCode = 1) => Len(stderr) = 1

C3_Witness ==
    /\ pc = "done"
    /\ exitCode = 0
    /\ stdout = << <<"a"," ","b">> >>

\* C4: every run ends, with exit code 0 or 1 and without an uncaught
\* exception; the code is 0 exactly when the transcript was written; a wrong
\* argument count, a failed validation, a missing library and an exception of
\* the recogniser each end the run with code 1 and one diagnostic on stderr.
\* A run ends because, until it has, the program has a step to take and has
\* taken fewer than the four stages there are.
C4_ExitCodes ==
    /\ pc = "done" =>
          /\ exitCode \in {0, 1}
          /\ ~uncaught
          /\ exitCode = 0 <=> stdout # <<>>
          /\ exitCode = 1 =>
                /\ Len(stderr) = 1
                /\ Len(argv) # 1 => stderr[1].kind = "usage"
                /\ (Len(argv) = 1 /\ validated # "pass") =>
                      stderr[1].kind \in {"not_exist", "not_in_tmp", "bad_ext", "validate_exc"}
                /\ validated = "pass" =>
                      stderr[1].kind \in {"import_error", "transcribe_exc"}
    /\ pc # "done" =>
          /\ exitCode = -1
          /\ ENABLED Program
          /\ Len(steps) < Len(StageOrder)

C4_Witness ==
    /\ pc = "done"
    /\ exitCode = 1
    /\ Kinds(stderr) = <<"transcribe_exc">>
    /\ Len(calls) = 1 /\ calls[1].reached

\* C5: with zero arguments or with two or more, the program prints the usage
\* line to stderr and exits 1 without any filesystem access: neither the
\* validation nor the transcription is started.
C5_UsageOnly ==
    Len(argv) # 1 =>
        /\ pc \in {"start", "done"}
        /\ ~fsTouched
        /\ checked = <<>> /\ validated = "none" /\ calls = <<>>
        /\ pc = "done" =>
              /\ Kinds(stderr) = <<"usage">>
              /\ exitCode = 1
              /\ stdout = <<>>
              /\ steps = <<"ARGUMENT_CHECK">>

C5_Witness ==
    /\ Len(argv) = 2
    /\ pc = "done"
    /\ Kinds(stderr) = <<"usage">>

\* C6: for an existing path inside /tmp, validate_audio_path returns True
\* exactly when the extension, letter case ignored, is .wav, .mp3, .m4a,
\* .flac or .ogg, and otherwise fails with the unsupported-extension
\* diagnostic.
C6_ExtensionDecides ==
    \A i \in 1..Len(checked) :
        (~checked[i].failed /\ checked[i].present /\ InsideDir(checked[i].path, TmpDir))
            => /\ validated = "pass" <=> HasAudioExtension(checked[i].path)
               /\ ~HasAudioExtension(checked[i].path) =>
                     /\ validated = "fail"
                     /\ stderr = <<Diag("bad_ext", <<Suffix(checked[i].path)>>)>>

C6_Witness ==
    /\ checked # <<>>
    /\ checked[1].path = <<tmp, b_MP3>>
    /\ validated = "pass"

\* C7: validate_audio_path tests exists, inside /tmp, allowed extension in
\* that order and stops at the first that fails: a failed validation prints
\* exactly one diagnostic, that of the first failing predicate, so a path
\* that does not exist always gets the file-does-not-exist diagnostic and
\* exit code 1.
C7_FirstFailingPredicate ==
    \A i \in 1..Len(checked) :
        (~checked[i].failed /\ validated = "fail")
            => /\ Kinds(stderr) = <<FirstFailing(checked[i])>>
               /\ exitCode = 1

\* C8: the transcript returned by transcribe_audio is the segment texts in
\* the order returned, one space between consecutive segments, with the
\* leading and trailing whitespace of the whole removed; no segment gives
\* the empty string.
C8_TranscriptJoined ==
    (pc \in {"emit", "done"} /\ exitCode # 1) =>
        /\ IsTrimOf(transcript, Spaced(segments))
        /\ segments = <<>> => transcript = <<>>

C8_Witness ==
    /\ pc = "emit"
    /\ segments = << <<" ","a">>, <<"b"," ">> >>
    /\ transcript = <<"a"," ","b">>

\* C9: an error raised while the path is resolved or inspected is caught in
\* validate_audio_path: it returns False with a diagnostic on stderr, the
\* process exits 1 and transcription is not started.
C9_InspectionErrorCaught ==
    \A i \in 1..Len(checked) :
        checked[i].failed
            => /\ validated = "fail"
               /\ Kinds(stderr) = <<"validate_exc">>
               /\ ~uncaught
               /\ pc = "done" /\ exitCode = 1
               /\ calls = <<>> /\ stdout = <<>>

C9_Witness ==
    /\ argv = << <<root, a_wav>> >>
    /\ checked # <<>> /\ checked[1].failed
    /\ pc = "done"

\* C10: whenever the recogniser is called, the path it is handed denotes at
\* that moment an existing file inside /tmp with an allowed extension, also
\* when another process changed the filesystem after the validation.  Stated
\* for the runs whose validated file was itself inside /tmp.
C10_TranscribedIsValidated ==
    \A i \in 1..Len(calls) :
        (calls[i].reached /\ checked # <<>> /\ InsideDir(checked[1].path, TmpDir))
            => /\ calls[i].present
               /\ InsideDir(calls[i].target, TmpDir)
               /\ HasAudioExtension(calls[i].target)

====
